---- MODULE Spec2Model ----
(***************************************************************************)
(* Model of src/app.py: the penguin A/B-test Streamlit application.        *)
(*                                                                         *)
(* Every browser session runs the script in its own thread with its own   *)
(* st.session_state; the "interactions" worksheet and the st.cache_data    *)
(* entry of get_interactions_data are shared by all sessions.  A widget    *)
(* event makes the session's script run main() once; st.rerun() restarts  *)
(* it.  Time is counted in whole seconds.                                  *)
(***************************************************************************)
EXTENDS Integers, Sequences, FiniteSets, TLC

(* ---------------------------- bounds ----------------------------------- *)
MaxTrials == 2
MaxTime == 13
MaxCount == 21
MaxPenguins == 2

(* ----------------------- program constants ----------------------------- *)
\* @st.cache_data(ttl=10) on get_interactions_data
TTL == 10
\* time.sleep(3) before the rerun that follows a completion
SleepSecs == 3
\* len(interactions_data) > 20
MinRows == 20

\* the browser sessions connected to the server
Sessions == {"s1", "s2"}
\* random.choice(['violin', 'pair'])
Conditions == {"violin", "pair"}
\* st.session_state.chart_type = None
NoChart == "None"
\* st.session_state.start_time = None
None == << >>
\* str(uuid.uuid4()): one fresh identifier per session
Uuid(s) == s
\* what uuid.uuid4() could return if the session called it again
Uuids(s) == IF s = "s1" THEN {"s1", "s1-b"} ELSE {"s2", "s2-b"}

(* A worksheet cell of the time_taken column: a number, or text that is    *)
(* no number; NaN is what pd.to_numeric(errors='coerce') makes of the      *)
(* latter.                                                                 *)
Num(d) == <<"num", d>>
Text == <<"str", 0>>
NaN == <<"nan", 0>>
IsNumber(c) == c[1] = "num"
\* a cell holding the digits of the number d as text
NumText(d) == <<"numstr", d>>

Min(a, b) == IF a < b THEN a ELSE b

VARIABLES
  chart_displayed,     \* st.session_state.chart_displayed, per session
  start_time,          \* st.session_state.start_time: None or <<t>>
  chart_type,          \* st.session_state.chart_type
  interaction_logged,  \* st.session_state.interaction_logged
  user_id,             \* st.session_state.user_id
  pc,                  \* where the session's script is: "idle" (waiting for
                       \* an event) or "update" (inside log_interaction,
                       \* before conn.update)
  new_row,             \* log_interaction's local new_row
  existing_data,       \* log_interaction's local existing_data
  success,             \* main's local success of the latest completion:
                       \* "none" (log_interaction not called), "True", "False"
  interactions,        \* the "interactions" worksheet
  cacheVal,            \* st.cache_data entry of get_interactions_data
  cacheAge,            \* seconds (monotonic) since it was stored; TTL = none
  dfEmpty,             \* load_data() currently yields an empty frame
  penguins,            \* the "penguins" worksheet
  df,                  \* the frame load_data() returned last (its cache entry)
  report,              \* what that run of load_data showed: [error, excluded]
  now,                 \* time.time(), the wall clock
  trial,               \* history: number of the session's current trial
  started,             \* history: trials started so far, all sessions
  completed,           \* history: trials <<s, n>> whose completion was handled
  writes,              \* history: trials <<s, n>> in order of successful
                       \* conn.update
  everFailed,          \* history: log_interaction has returned False
  ignored              \* history: the click the latest step found no button
                       \* for, [session, button], or NoClick

vars == <<chart_displayed, start_time, chart_type, interaction_logged, user_id,
          pc, new_row, existing_data, success, interactions,
          cacheVal, cacheAge, dfEmpty, penguins, df, report, now, trial,
          started, completed,
          writes, everFailed, ignored>>

sessionVars == <<chart_displayed, start_time, chart_type, interaction_logged,
                 user_id>>
trialVars == <<chart_displayed, start_time, chart_type, interaction_logged>>
datasetVars == <<penguins, df, report>>
localVars == <<pc, new_row, existing_data, success>>
historyVars == <<trial, started, completed, writes, everFailed>>
NoClick == [session |-> "", button |-> ""]
Click(s, b) == [session |-> s, button |-> b]

(* ------------------------- pure functions ------------------------------- *)

\* pd.to_numeric(df['time_taken'], errors='coerce') on one cell
to_numeric(c) ==
  IF IsNumber(c) THEN c ELSE IF c[1] = "numstr" THEN Num(c[2]) ELSE NaN

\* the same on the whole column of a frame
ToNumericColumn(frame) ==
  [i \in DOMAIN frame |-> [frame[i] EXCEPT !.time_taken = to_numeric(@)]]

\* pd.DataFrame(columns=[...]): a frame without rows
EmptyFrame == << >>

\* How conn.read can end when get_interactions_data really runs, or "hit"
\* when st.cache_data serves the stored value (entry younger than TTL).
ReadOutcomes(age) == IF age < TTL THEN {"hit"} ELSE {"ok", "fail"}

\* get_interactions_data() under @st.cache_data(ttl=10): cv/age is the cache
\* entry, sheet the worksheet, rd the outcome of conn.read.  The value the
\* function returns is stored, also the empty frame of the except branch.
get_interactions_data(cv, age, sheet, rd) ==
  IF age < TTL
    THEN [data |-> cv, age |-> age]
    ELSE [data |-> IF rd = "ok" THEN ToNumericColumn(sheet) ELSE EmptyFrame,
          age |-> 0]

ChartTypes(data) == {data[i].chart_type : i \in DOMAIN data}

RowsOf(data, c) == {i \in DOMAIN data : data[i].chart_type = c}

\* display_stats: groupby('chart_type')['time_taken'].agg([... 'count' ...]).
\* One entry per chart_type value present; 'count' counts the non-NaN
\* time_taken values of the group.  Only the count column is modelled (mean,
\* min, max and std are floating-point figures).
display_stats(data) ==
  IF data = EmptyFrame
    THEN [c \in {} |-> 0]
    ELSE [c \in ChartTypes(data) |->
            Cardinality({i \in RowsOf(data, c) : IsNumber(data[i].time_taken)})]

\* main, the "Statistical Analysis" part of the results expander
statistical_analysis(data) ==
  IF data # EmptyFrame /\ Len(data) > MinRows
    THEN IF Cardinality(RowsOf(data, "violin")) > 0
            /\ Cardinality(RowsOf(data, "pair")) > 0
           THEN "t-test"
           ELSE "nothing"
    ELSE "not enough data"

(* load_data *)

\* valid_species (line 40)
valid_species == {"Adelie", "Chinstrap", "Gentoo"}

PenguinRow(sp, len, dep) ==
  [species |-> sp, bill_length_mm |-> len, bill_depth_mm |-> dep]

\* df[df['species'].isin(valid_species)] (line 47)
FilterSpecies(rows) ==
  LET Valid(r) == r.species \in valid_species IN SelectSeq(rows, Valid)

\* lines 48-50: pd.to_numeric(df[col], errors='coerce') on both columns
CoerceMeasures(rows) ==
  [i \in DOMAIN rows |->
     [rows[i] EXCEPT !.bill_length_mm = to_numeric(@),
                     !.bill_depth_mm = to_numeric(@)]]

\* Variant of DropNa: rows with a NaN measurement stay
KeepNa(rows) == rows

\* df.dropna(subset=num_cols + ['species']) (line 51); species is a string
\* after astype(str), never NaN
DropNa(rows) ==
  LET Whole(r) == IsNumber(r.bill_length_mm) /\ IsNumber(r.bill_depth_mm)
  IN SelectSeq(rows, Whole)

\* invalid_rows (line 43) and the number the st.warning of line 45 names;
\* 0 stands for no warning
InvalidCount(rows) ==
  Cardinality({i \in DOMAIN rows : rows[i].species \notin valid_species})

\* load_data() when it really runs: sheet is the worksheet, rd the outcome
\* of conn.read.  The except branch shows st.error and returns a frame
\* without rows.
load_data(sheet, rd) ==
  IF rd = "ok"
    THEN [df |-> DropNa(CoerceMeasures(FilterSpecies(sheet))),
          error |-> FALSE, excluded |-> InvalidCount(sheet)]
    ELSE [df |-> EmptyFrame, error |-> TRUE, excluded |-> 0]

\* a worksheet with one valid row
DefaultPenguins == <<PenguinRow("Adelie", Num(1), Num(1))>>

NoRow == [timestamp |-> 0, user_id |-> "", chart_type |-> NoChart,
          time_taken |-> NaN]

\* duration = end_time - st.session_state.start_time
Duration(end_time, begun) == end_time - begun

\* sessions whose script is inside a completion (each still sleeps SleepSecs)
Busy == {s \in Sessions : pc[s] # "idle"}

(* ------------------------------ Init ----------------------------------- *)

\* Lines 19-28 have run for every session and the worksheet is empty.
Init ==
  /\ chart_displayed = [s \in Sessions |-> FALSE]
  /\ start_time = [s \in Sessions |-> None]
  /\ chart_type = [s \in Sessions |-> NoChart]
  /\ interaction_logged = [s \in Sessions |-> FALSE]
  /\ user_id = [s \in Sessions |-> Uuid(s)]
  /\ pc = [s \in Sessions |-> "idle"]
  /\ new_row = [s \in Sessions |-> NoRow]
  /\ existing_data = [s \in Sessions |-> EmptyFrame]
  /\ success = [s \in Sessions |-> "none"]
  /\ interactions = EmptyFrame
  /\ cacheVal = EmptyFrame
  /\ cacheAge = TTL
  /\ dfEmpty = FALSE
  /\ penguins = DefaultPenguins
  /\ df = load_data(DefaultPenguins, "ok").df
  /\ report = [error |-> FALSE, excluded |-> 0]
  /\ now = 0
  /\ trial = [s \in Sessions |-> 0]
  /\ started = 0
  /\ completed = {}
  /\ writes = << >>
  /\ everFailed = FALSE
  /\ ignored = NoClick

(* ----------------------------- actions --------------------------------- *)

\* Variant of UserIdAtTop: the identifier is drawn again by every script run
UserIdRegenerated(s) == Uuids(s)

\* Lines 27-28, run at the top of every script run: the key is in
\* st.session_state since the session's first run, so the value stays.
UserIdAtTop(s) == {user_id[s]}

\* The top of the script (lines 19-28) in a session whose keys all exist
ScriptTop(s) ==
  \E u \in UserIdAtTop(s) : user_id' = [user_id EXCEPT ![s] = u]

\* One run of main() from the top to the results expander, with the cache
\* entry at age `age`: returns early when load_data() is empty, else draws
\* the page and calls get_interactions_data() for the expander, which shows
\* display_stats and statistical_analysis of the frame returned (the new
\* cache entry).
Main(age, sheet, rd) ==
  IF dfEmpty
    THEN /\ cacheVal' = cacheVal
         /\ cacheAge' = age
    ELSE LET got == get_interactions_data(cacheVal, age, sheet, rd)
         IN /\ cacheVal' = got.data
            /\ cacheAge' = got.age

\* The script runs with no button pressed (page load, another widget).
Rerun(s) ==
  /\ pc[s] = "idle"
  /\ \E rd \in ReadOutcomes(cacheAge) :
       /\ interactions' = interactions
       /\ Main(cacheAge, interactions, rd)
  /\ success' = [success EXCEPT ![s] = "none"]
  /\ ignored' = NoClick
  /\ ScriptTop(s)
  /\ UNCHANGED <<trialVars, pc, new_row, existing_data, dfEmpty, datasetVars,
                 now, historyVars>>

\* Variant of StartAssign: start_time is not recorded
StartAssignNoTime(s, c) ==
  /\ chart_displayed' = [chart_displayed EXCEPT ![s] = TRUE]
  /\ chart_type' = [chart_type EXCEPT ![s] = c]
  /\ interaction_logged' = [interaction_logged EXCEPT ![s] = FALSE]
  /\ UNCHANGED start_time

\* What the "Start Test" branch assigns (lines 205-208)
StartAssign(s, c) ==
  /\ chart_displayed' = [chart_displayed EXCEPT ![s] = TRUE]
  /\ start_time' = [start_time EXCEPT ![s] = <<now>>]
  /\ chart_type' = [chart_type EXCEPT ![s] = c]
  /\ interaction_logged' = [interaction_logged EXCEPT ![s] = FALSE]

\* Variant of StartButtonShown: "Start Test" is drawn whatever chart_displayed
StartButtonAlways(s) == ~dfEmpty

\* Line 203 (after the early return of line 185): the page shows "Start Test"
StartButtonShown(s) == ~dfEmpty /\ ~chart_displayed[s]

\* A "Start Test" click reaches the session.  The button exists only in a
\* page drawn with data and chart_displayed False; otherwise the run is an
\* ordinary one.  st.rerun() then runs main() again.
StartTest(s) ==
  /\ pc[s] = "idle"
  /\ \E c \in Conditions, rd \in ReadOutcomes(cacheAge) :
       /\ IF StartButtonShown(s)
            THEN /\ started < MaxTrials
                 /\ StartAssign(s, c)
                 /\ started' = started + 1
                 /\ trial' = [trial EXCEPT ![s] = started + 1]
                 /\ ignored' = NoClick
            ELSE /\ ignored' = Click(s, "Start Test")
                 /\ UNCHANGED <<chart_displayed, start_time, chart_type,
                                interaction_logged, trial, started>>
       /\ interactions' = interactions
       /\ Main(cacheAge, interactions, rd)
  /\ success' = [success EXCEPT ![s] = "none"]
  /\ ScriptTop(s)
  /\ UNCHANGED <<pc, new_row, existing_data, dfEmpty, datasetVars, now,
                 completed, writes, everFailed>>

\* Variant of AnswerButtonShown: main does not return on an empty dataset
AnswerButtonNoReturn(s) == chart_displayed[s]

\* Line 210 (after the early return of line 185): the page shows the timer
\* and "I Can Answer Now"
AnswerButtonShown(s) == ~dfEmpty /\ chart_displayed[s]

\* Variant of NewRow: the row names a fixed chart type
NewRowFixedChart(s, time_taken) ==
  [timestamp |-> now, user_id |-> user_id[s], chart_type |-> "violin",
   time_taken |-> Num(time_taken)]

\* log_interaction's new_row (lines 72-77)
NewRow(s, time_taken) ==
  [timestamp |-> now, user_id |-> user_id[s], chart_type |-> chart_type[s],
   time_taken |-> Num(time_taken)]

\* An "I Can Answer Now" click reaches the session (lines 215-219 and
\* log_interaction up to its read of the prior log).  Without the button the
\* run is an ordinary one.
AnswerNow(s) ==
  /\ pc[s] = "idle"
  /\ \E rd \in ReadOutcomes(cacheAge) :
       IF AnswerButtonShown(s)
         THEN /\ now + SleepSecs * (Cardinality(Busy) + 1) <= MaxTime
              /\ IF ~interaction_logged[s]
                   THEN LET duration == Duration(now, start_time[s][1])
                            got == get_interactions_data(cacheVal, cacheAge,
                                                         interactions, rd)
                        IN /\ new_row' = [new_row EXCEPT ![s] = NewRow(s, duration)]
                           /\ existing_data' = [existing_data EXCEPT ![s] = got.data]
                           /\ cacheVal' = got.data
                           /\ cacheAge' = got.age
                           /\ pc' = [pc EXCEPT ![s] = "update"]
                   ELSE /\ pc' = [pc EXCEPT ![s] = "reset"]
                        /\ UNCHANGED <<new_row, existing_data, cacheVal, cacheAge>>
              /\ completed' = completed \cup {<<s, trial[s]>>}
              /\ ignored' = NoClick
         ELSE /\ Main(cacheAge, interactions, rd)
              /\ ignored' = Click(s, "I Can Answer Now")
              /\ UNCHANGED <<pc, new_row, existing_data, completed>>
  /\ success' = [success EXCEPT ![s] = "none"]
  /\ ScriptTop(s)
  /\ UNCHANGED <<trialVars, interactions, dfEmpty, datasetVars, now, trial,
                 started, writes, everFailed>>

\* Variant of Concat: the frame written lacks the new row
ConcatDropsRow(existing, row) == existing

\* pd.concat([existing_data, new_data], ignore_index=True)
Concat(existing, row) == Append(existing, row)

\* Variant of Update: the frame written is added to the rows already there
UpdateAppends(sheet, updated_data, ok) ==
  IF ok THEN sheet \o updated_data ELSE sheet

\* conn.update(worksheet="interactions", data=updated_data): the worksheet
\* becomes the frame written, or the call raises and leaves it as it was
Update(sheet, updated_data, ok) == IF ok THEN updated_data ELSE sheet

\* Variant of ResetTrial: only the flag of line 228 is reset, the trial
\* stays on the page
ResetFlagOnly(s) ==
  /\ interaction_logged' = [interaction_logged EXCEPT ![s] = FALSE]
  /\ UNCHANGED <<chart_displayed, chart_type, start_time>>

\* Lines 228-231, run after every handled completion
ResetTrial(s) ==
  /\ interaction_logged' = [interaction_logged EXCEPT ![s] = FALSE]
  /\ chart_displayed' = [chart_displayed EXCEPT ![s] = FALSE]
  /\ chart_type' = [chart_type EXCEPT ![s] = NoChart]
  /\ start_time' = [start_time EXCEPT ![s] = None]

\* The rest of log_interaction (lines 83-91) and of the completion branch
\* (lines 220-231), up to time.sleep.  interaction_logged becomes True on
\* success (line 221) and False again at line 228, within this step.
LogUpdate(s) ==
  /\ pc[s] \in {"update", "reset"}
  /\ \E ok \in (IF pc[s] = "update" THEN BOOLEAN ELSE {TRUE}) :
       IF pc[s] = "update"
         THEN /\ interactions' = Update(interactions,
                                        Concat(existing_data[s], new_row[s]), ok)
              /\ success' = [success EXCEPT ![s] = IF ok THEN "True" ELSE "False"]
              /\ writes' = IF ok THEN Append(writes, <<s, trial[s]>>) ELSE writes
              /\ everFailed' = (everFailed \/ ~ok)
         ELSE UNCHANGED <<interactions, success, writes, everFailed>>
  /\ ResetTrial(s)
  /\ pc' = [pc EXCEPT ![s] = "sleep"]
  /\ new_row' = [new_row EXCEPT ![s] = NoRow]
  /\ existing_data' = [existing_data EXCEPT ![s] = EmptyFrame]
  /\ ignored' = NoClick
  /\ UNCHANGED <<user_id, cacheVal, cacheAge, dfEmpty, datasetVars, now,
                 trial, started, completed>>

\* time.sleep(3) is over and st.rerun() runs main() again (lines 234-235)
Wake(s) ==
  /\ pc[s] = "sleep"
  /\ now' = now + SleepSecs
  /\ LET age == Min(cacheAge + SleepSecs, TTL)
     IN \E rd \in ReadOutcomes(age) : Main(age, interactions, rd)
  /\ pc' = [pc EXCEPT ![s] = "idle"]
  /\ ignored' = NoClick
  /\ ScriptTop(s)
  /\ UNCHANGED <<trialVars, new_row, existing_data, success, interactions,
                 dfEmpty, datasetVars, historyVars>>

\* d seconds pass
Tick(d) ==
  /\ now + d + SleepSecs * Cardinality(Busy) <= MaxTime
  /\ now' = now + d
  /\ cacheAge' = Min(cacheAge + d, TTL)
  /\ ignored' = NoClick
  /\ UNCHANGED <<sessionVars, localVars, interactions, cacheVal,
                 dfEmpty, datasetVars, historyVars>>

\* The wall clock is set back by d seconds; the cache's monotonic timer is
\* not affected.
ClockSetBack(d) ==
  /\ now - d >= 0
  /\ now' = now - d
  /\ ignored' = NoClick
  /\ UNCHANGED <<sessionVars, localVars, interactions, cacheVal,
                 cacheAge, dfEmpty, datasetVars, historyVars>>

\* load_data()'s cache entry (ttl=600) has expired and load_data runs again
\* in the next script run: conn.read returns the worksheet or raises.
DatasetChange ==
  /\ \E rd \in {"ok", "fail"} :
       LET got == load_data(penguins, rd)
       IN /\ df' = got.df
          /\ report' = [error |-> got.error, excluded |-> got.excluded]
          /\ dfEmpty' = (got.df = EmptyFrame)
  /\ ignored' = NoClick
  /\ UNCHANGED <<sessionVars, localVars, interactions, cacheVal,
                 cacheAge, penguins, now, historyVars>>

\* Time passes, and the clock is set back, by the lifetime of a cache entry
TickSteps == {TTL}
BackSteps == {TTL}

Next ==
  \/ \E s \in Sessions : Rerun(s)
  \/ \E s \in Sessions : StartTest(s)
  \/ \E s \in Sessions : AnswerNow(s)
  \/ \E s \in Sessions : LogUpdate(s)
  \/ \E s \in Sessions : Wake(s)
  \/ \E d \in TickSteps : Tick(d)
  \/ \E d \in BackSteps : ClockSetBack(d)
  \/ DatasetChange

Spec == Init /\ [][Next]_vars

(* One session alone: only s1 ever runs its script. *)
NextSolo ==
  \/ Rerun("s1")
  \/ StartTest("s1")
  \/ AnswerNow("s1")
  \/ LogUpdate("s1")
  \/ Wake("s1")
  \/ \E d \in TickSteps : Tick(d)
  \/ \E d \in BackSteps : ClockSetBack(d)
  \/ DatasetChange

SpecSolo == Init /\ [][NextSolo]_vars

(* The results expander over a worksheet that already holds rows: nv rows   *)
(* of 'violin', np of 'pair', no of another chart_type value, all with a    *)
(* numeric time_taken, and nb rows of chart_type bc whose time_taken cell   *)
(* is no number.                                                           *)
SheetRow(c, cell) ==
  [timestamp |-> 0, user_id |-> "u0", chart_type |-> c, time_taken |-> cell]

Rows(c, n, cell) == [i \in 1..n |-> SheetRow(c, cell)]

Sheet(nv, np, no, bc, nb) ==
  Rows("violin", nv, Num(1)) \o Rows("pair", np, Num(1))
    \o Rows("other", no, Num(1)) \o Rows(bc, nb, Text)

InitStats ==
  /\ chart_displayed = [s \in Sessions |-> FALSE]
  /\ start_time = [s \in Sessions |-> None]
  /\ chart_type = [s \in Sessions |-> NoChart]
  /\ interaction_logged = [s \in Sessions |-> FALSE]
  /\ user_id = [s \in Sessions |-> Uuid(s)]
  /\ pc = [s \in Sessions |-> "idle"]
  /\ new_row = [s \in Sessions |-> NoRow]
  /\ existing_data = [s \in Sessions |-> EmptyFrame]
  /\ success = [s \in Sessions |-> "none"]
  /\ \E nv \in 0..MaxCount, np \in 0..MaxCount, no \in 0..MaxCount,
        bc \in {"violin", "pair", "other"}, nb \in 0..1 :
       /\ nb = 0 => bc = "violin"
       /\ interactions = Sheet(nv, np, no, bc, nb)
  /\ cacheVal = EmptyFrame
  /\ cacheAge = TTL
  /\ dfEmpty = FALSE
  /\ penguins = DefaultPenguins
  /\ df = load_data(DefaultPenguins, "ok").df
  /\ report = [error |-> FALSE, excluded |-> 0]
  /\ now = 0
  /\ trial = [s \in Sessions |-> 0]
  /\ started = 0
  /\ completed = {}
  /\ writes = << >>
  /\ everFailed = FALSE
  /\ ignored = NoClick

NextStats == \E s \in Sessions : Rerun(s)

SpecStats == InitStats /\ [][NextStats]_vars

(* load_data over a "penguins" worksheet of up to MaxPenguins rows, before  *)
(* its first run.                                                          *)
SpeciesPool == {"Adelie", "Chinstrap", "Gentoo", "Orca"}
CellPool == {Num(1), NumText(2), Text, NaN}
PenguinRows == {PenguinRow(sp, l, d) : sp \in SpeciesPool, l \in CellPool,
                                       d \in CellPool}
PenguinSheets == UNION {[1..n -> PenguinRows] : n \in 0..MaxPenguins}

InitLoad ==
  /\ chart_displayed = [s \in Sessions |-> FALSE]
  /\ start_time = [s \in Sessions |-> None]
  /\ chart_type = [s \in Sessions |-> NoChart]
  /\ interaction_logged = [s \in Sessions |-> FALSE]
  /\ user_id = [s \in Sessions |-> Uuid(s)]
  /\ pc = [s \in Sessions |-> "idle"]
  /\ new_row = [s \in Sessions |-> NoRow]
  /\ existing_data = [s \in Sessions |-> EmptyFrame]
  /\ success = [s \in Sessions |-> "none"]
  /\ interactions = EmptyFrame
  /\ cacheVal = EmptyFrame
  /\ cacheAge = TTL
  /\ dfEmpty = TRUE
  /\ penguins \in PenguinSheets
  /\ df = EmptyFrame
  /\ report = [error |-> FALSE, excluded |-> -1]
  /\ now = 0
  /\ trial = [s \in Sessions |-> 0]
  /\ started = 0
  /\ completed = {}
  /\ writes = << >>
  /\ everFailed = FALSE
  /\ ignored = NoClick

NextLoad == DatasetChange

SpecLoad == InitLoad /\ [][NextLoad]_vars

\* The frame the results expander of the latest drawn page shows: the value
\* get_interactions_data() returned last.
Shown == cacheVal

Range(f) == {f[i] : i \in DOMAIN f}

(* ------------------------------ claims --------------------------------- *)

\* C1: when the completion is handled and log_interaction returns False, the
\* trial stays awaiting its log: chart_displayed, chart_type and start_time
\* of the trial are kept, so that it can be retried.
C1_FailedLogKeepsTrial ==
  \A s \in Sessions :
    success[s] = "False" =>
      /\ chart_displayed[s]
      /\ chart_type[s] \in Conditions
      /\ start_time[s] # None

\* C2: in one session whose log_interaction never returned False, once a
\* completion is through its write the worksheet holds as many records as
\* trials were completed.
C2_RecordsEqualCompletedTrials ==
  (~everFailed /\ pc["s1"] \in {"idle", "sleep"}) =>
    Len(interactions) = Cardinality(completed)

\* C3: the log is append-only: every record of the worksheet is a record of
\* the worksheet after any step.
C3_AppendOnly ==
  [][\A i \in DOMAIN interactions :
       \E j \in DOMAIN interactions' : interactions'[j] = interactions[i]]_vars

\* C4: one trial produces at most one record: no trial is written twice,
\* every written trial was completed, and the writes never outnumber the
\* completed trials.
C4_AtMostOneRecordPerTrial ==
  /\ \A i, j \in DOMAIN writes : writes[i] = writes[j] => i = j
  /\ \A i \in DOMAIN writes : writes[i] \in completed
  /\ Len(writes) <= Cardinality(completed)

\* C4 witness: a second completion signal arrived for a trial whose record
\* is written, and found nothing to do.
C4_Witness ==
  \E s \in Sessions :
    /\ ignored = Click(s, "I Can Answer Now")
    /\ <<s, trial[s]>> \in Range(writes)

\* C5: a Start Test click arriving while the session's trial is running
\* leaves chart_displayed, chart_type and start_time as they are.
C5_StartWhileRunningIsNoOp ==
  [][\A s \in Sessions :
       (StartTest(s) /\ chart_displayed[s]) =>
         /\ chart_displayed'[s] = chart_displayed[s]
         /\ chart_type'[s] = chart_type[s]
         /\ start_time'[s] = start_time[s]]_vars

\* C5 witness: such a click has arrived at a running trial.
C5_Witness ==
  \E s \in Sessions : ignored = Click(s, "Start Test") /\ chart_displayed[s]

\* C6: log_interaction has no partial outcome: it ends with True and the new
\* record in the worksheet, or with False and the worksheet as it was.
C6_NoPartialOutcome ==
  [][\A s \in Sessions :
       (LogUpdate(s) /\ pc[s] = "update") =>
         \/ /\ success'[s] = "True"
            /\ new_row[s] \in Range(interactions')
         \/ /\ success'[s] = "False"
            /\ interactions' = interactions]_vars

\* C6 witness: one call has ended with True and another with False, on a
\* worksheet that holds records.
C6_Witness ==
  /\ interactions # EmptyFrame
  /\ \E s, u \in Sessions : success[s] = "True" /\ success[u] = "False"

\* C7: the time_taken handed to log_interaction is never negative.
C7_ElapsedNeverNegative ==
  \A s \in Sessions : pc[s] = "update" => new_row[s].time_taken[2] >= 0

\* C8: the t-test is attempted only when the 'violin' and 'pair' samples
\* together are more than 20.
C8_TestNeedsMoreThanTwentySamples ==
  statistical_analysis(Shown) = "t-test" =>
    Cardinality(RowsOf(Shown, "violin")) + Cardinality(RowsOf(Shown, "pair"))
      > MinRows

\* C9: whenever 'violin' or 'pair' has no sample, the expander shows an
\* explicit informational outcome instead of a t-test.
C9_MissingConditionIsReported ==
  (RowsOf(Shown, "violin") = {} \/ RowsOf(Shown, "pair") = {}) =>
    statistical_analysis(Shown) = "not enough data"

\* C10: the summary has an entry for a condition exactly when a record has
\* that chart_type, and its count is the number of those records.
C10_SummaryCountsRecords ==
  \A c \in Conditions :
    /\ c \in DOMAIN display_stats(Shown) <=> RowsOf(Shown, c) # {}
    /\ c \in DOMAIN display_stats(Shown) =>
         display_stats(Shown)[c] = Cardinality(RowsOf(Shown, c))

\* C11: the session's identifier is the one generated when the session
\* began, in every state; the row handed to conn.update carries it, and the
\* newest row of the worksheet carries the identifier of the session that
\* wrote last.
C11_UserIdStable ==
  /\ \A s \in Sessions : user_id[s] = Uuid(s)
  /\ \A s \in Sessions : pc[s] = "update" => new_row[s].user_id = Uuid(s)
  /\ writes # << >> =>
       /\ interactions # EmptyFrame
       /\ interactions[Len(interactions)].user_id = Uuid(writes[Len(writes)][1])

\* C11 witness: one session has written the records of two of its trials,
\* with reruns in between.
C11_Witness ==
  \E s \in Sessions :
    /\ Len(writes) = 2
    /\ writes[1][1] = s /\ writes[2][1] = s
    /\ pc[s] = "idle"

\* a cell pd.to_numeric reads as a number
Numeric(c) == c[1] \in {"num", "numstr"}

\* the rows of the worksheet that are valid: a valid species, numeric measures
ValidRows ==
  {i \in DOMAIN penguins :
     /\ penguins[i].species \in {"Adelie", "Chinstrap", "Gentoo"}
     /\ Numeric(penguins[i].bill_length_mm)
     /\ Numeric(penguins[i].bill_depth_mm)}

\* load_data has run and conn.read returned the worksheet
Loaded == report.excluded >= 0 /\ ~report.error

\* C12: load_data returns exactly the valid rows of the worksheet, in their
\* order, each with its species and the numbers of its two measurements.
C12_LoadKeepsExactlyValidRows ==
  Loaded =>
    /\ Len(df) = Cardinality(ValidRows)
    /\ \A i \in ValidRows :
         LET k == Cardinality({j \in ValidRows : j <= i})
         IN /\ df[k].species = penguins[i].species
            /\ df[k].bill_length_mm = Num(penguins[i].bill_length_mm[2])
            /\ df[k].bill_depth_mm = Num(penguins[i].bill_depth_mm[2])

\* C12 witness: load_data kept a row and excluded a row with a measurement
\* that is no number.
C12_Witness ==
  /\ Loaded
  /\ df # EmptyFrame
  /\ \E i \in DOMAIN penguins :
       /\ penguins[i].species \in valid_species
       /\ ~Numeric(penguins[i].bill_depth_mm)

\* C13: whenever load_data drops rows, the number it reports is the number
\* of rows of the worksheet missing from the result.
C13_DroppedRowsAreCounted ==
  (Loaded /\ Len(df) < Len(penguins)) =>
    report.excluded = Len(penguins) - Len(df)

\* C14: an "I Can Answer Now" signal arriving while the session has no
\* trial on the page writes no record and changes no session state.
C14_AnswerWhileIdleIsNoOp ==
  [][\A s \in Sessions :
       (AnswerNow(s) /\ ~chart_displayed[s]) =>
         /\ interactions' = interactions
         /\ writes' = writes
         /\ completed' = completed
         /\ pc'[s] = pc[s]
         /\ chart_displayed'[s] = chart_displayed[s]
         /\ start_time'[s] = start_time[s]
         /\ chart_type'[s] = chart_type[s]
         /\ interaction_logged'[s] = interaction_logged[s]
         /\ user_id'[s] = user_id[s]]_vars

\* C14 witness: such a signal has arrived in a page drawn with data.
C14_Witness ==
  \E s \in Sessions :
    /\ ignored = Click(s, "I Can Answer Now")
    /\ ~chart_displayed[s]
    /\ ~dfEmpty

\* C15: chart_type stays what it is while a trial is on the page, the row
\* handed to conn.update carries it, and it is 'violin' or 'pair', as is the
\* chart_type of every record of the worksheet.
C15_RecordCarriesDrawnCondition ==
  [][/\ \A s \in Sessions :
          (chart_displayed[s] /\ chart_displayed'[s]) =>
            chart_type'[s] = chart_type[s]
     /\ \A s \in Sessions :
          pc'[s] = "update" =>
            /\ new_row'[s].chart_type = chart_type'[s]
            /\ chart_type'[s] \in Conditions
     /\ \A i \in DOMAIN interactions' :
          interactions'[i].chart_type \in Conditions]_vars

\* C15 witness: the record of a trial that showed 'pair' is in the worksheet.
C15_Witness ==
  /\ writes # << >>
  /\ \E i \in DOMAIN interactions : interactions[i].chart_type = "pair"

\* C16: whenever log_interaction is running for a trial, interaction_logged
\* is already True.
C16_FlagSetBeforeLogging ==
  \A s \in Sessions : pc[s] = "update" => interaction_logged[s]

\* C17: the worksheet changes only by a whole write: a step in which a
\* session's conn.update succeeds leaves exactly that session's frame, with
\* its new record, and no other step changes the worksheet.
C17_LastWriterVisible ==
  [][IF writes' # writes
       THEN LET w == writes'[Len(writes')][1]
            IN /\ interactions' = Append(existing_data[w], new_row[w])
               /\ new_row[w] \in Range(interactions')
       ELSE interactions' = interactions]_vars

\* C17 witness: two sessions read the log before either wrote, and both
\* wrote: the worksheet is the frame of the second writer alone.
C17_Witness ==
  /\ Len(writes) = 2
  /\ writes[1][1] # writes[2][1]
  /\ Len(interactions) = 1
  /\ interactions[1].user_id = Uuid(writes[2][1])

\* C18: chart_displayed is True exactly when start_time is a timestamp and
\* exactly when chart_type is 'violin' or 'pair'.
C18_TrialFlagsConsistent ==
  \A s \in Sessions :
    /\ chart_displayed[s] <=> start_time[s] # None
    /\ chart_displayed[s] <=> chart_type[s] \in Conditions

\* C18 witness: one session has a trial on the page while another has
\* completed one and is back to no trial.
C18_Witness ==
  \E s, u \in Sessions :
    /\ chart_displayed[s] /\ pc[s] = "idle"
    /\ ~chart_displayed[u] /\ pc[u] = "idle" /\ <<u, trial[u]>> \in completed

\* C19: while load_data yields an empty frame, a session waiting for an
\* event keeps its trial as it is and starts no completion, and, with every
\* session waiting, no trial is started or completed and no record written.
C19_EmptyDatasetFreezesTrials ==
  [][dfEmpty =>
       /\ \A s \in Sessions :
            pc[s] = "idle" =>
              /\ pc'[s] = "idle"
              /\ chart_displayed'[s] = chart_displayed[s]
              /\ chart_type'[s] = chart_type[s]
              /\ start_time'[s] = start_time[s]
              /\ trial'[s] = trial[s]
       /\ (\A s \in Sessions : pc[s] = "idle") =>
            /\ interactions' = interactions
            /\ writes' = writes
            /\ completed' = completed
            /\ started' = started]_vars

\* C19 witness: with the dataset empty, a completion click has arrived for
\* a trial that is on the page, and the trial is still there.
C19_Witness ==
  \E s \in Sessions :
    /\ dfEmpty
    /\ chart_displayed[s]
    /\ start_time[s] # None
    /\ ignored = Click(s, "I Can Answer Now")

====
